---- MODULE Spec2Model ----
\* A model of nonstd::any (include/nonstd/any.hpp): the container core, the two
\* storage_model implementations (internal_storage, external_storage) and the
\* heap behind std::unique_ptr / std::make_unique.
EXTENDS Integers, Sequences, FiniteSets, TLC

\* ---------------------------------------------------------------- bounds
NumContainers == 2      \* named any objects the client code owns
MaxVal == 2             \* payload values are 1..MaxVal
NumUnits == 2           \* translation units that each may own a model_of<T> static

\* ---------------------------------------------------------------- constants
internal_storage_size == 16
internal_storage_alignment == 16

\* ---------------------------------------------------------------- payload types
\* int        : int
\* big        : struct alignas(32) { long a[8]; } (too large, over-aligned)
\* uniq       : std::unique_ptr<int>             (move-only)
\* pinned     : any_detail::pinned               (neither copyable nor movable)
\* constmem   : struct { const int x; }          (constructible by copy, not assignable)
Types == {"int", "big", "uniq", "pinned", "constmem"}
Void == "void"
Vals == 1..MaxVal
Units == 1..NumUnits
Ids == 1..NumContainers
Temp == 0                       \* the temporary any{std::move(x)} of operator=(T&&)
Slots == {Temp} \cup Ids
Addrs == 1..(NumContainers + 1)
None == "none"

is_copy_constructible(T) == T \in {"int", "big", "constmem"}
is_copy_assignable(T) == T \in {"int", "big"}
is_move_constructible(T) == T \in {"int", "big", "uniq", "constmem"}
is_move_assignable(T) == T \in {"int", "big", "uniq"}
sizeof(T) ==
  CASE T = "int" -> 4 [] T = "big" -> 64 [] T = "uniq" -> 8
    [] T = "pinned" -> 1 [] T = "constmem" -> 4
alignof(T) ==
  CASE T = "int" -> 4 [] T = "big" -> 32 [] T = "uniq" -> 8
    [] T = "pinned" -> 1 [] T = "constmem" -> 4

\* The value a payload object is left with after std::move took it: a moved-from
\* unique_ptr is null (0); the other movable payloads are moved by copying.
moved_from(T, v) == IF T = "uniq" THEN 0 ELSE v

is_copyable(T) == TRUE /\ is_copy_constructible(T) /\ is_copy_assignable(T)

is_movable(T) == TRUE /\ is_move_constructible(T) /\ is_move_assignable(T)

can_store_internally(T) ==
  /\ TRUE
  /\ is_movable(T)
  /\ sizeof(T) <= internal_storage_size
  /\ alignof(T) <= internal_storage_alignment

\* ---------------------------------------------------------------- state
VARIABLES
  alive,      \* alive[c]: the any object c is within its lifetime
  model,      \* model[c]: storage_model const* (Null or a descriptor)
  storage,    \* storage[c]: what the 16 bytes currently are
  heap,       \* heap[a]: the object operator new handed out at a, or NoObj
  log,        \* payload/heap events of the last operation, in order
  last        \* the last operation, its arguments, its outcome

vars == <<alive, model, storage, heap, log, last>>

Null == [type |-> Void, unit |-> 0]
Raw == [kind |-> "raw", type |-> Void, val |-> 0, ptr |-> 0]
Val(T, v) == [kind |-> "val", type |-> T, val |-> v, ptr |-> 0]
Ptr(T, a) == [kind |-> "ptr", type |-> T, val |-> 0, ptr |-> a]
NoObj == [type |-> Void, val |-> 0]
Obj(T, v) == [type |-> T, val |-> v]

Event(e, c, a) == [ev |-> e, slot |-> c, addr |-> a]
Note(w, e, c, a) == [w EXCEPT !.log = Append(@, Event(e, c, a))]
Throw(w, e) == [w EXCEPT !.exc = e]

\* ---------------------------------------------------------------- heap
FreeAddrs(w) == {a \in Addrs : w.heap[a] = NoObj}
operator_new(w) == CHOOSE a \in FreeAddrs(w) : \A b \in FreeAddrs(w) : a <= b

\* delete p, as std::unique_ptr's destructor / reset does it: nothing for null.
delete(w, c, a) ==
  IF a = 0 THEN w
  ELSE IF w.heap[a] = NoObj THEN Note(w, "ub", c, a)
  ELSE Note(Note([w EXCEPT !.heap[a] = NoObj], "dtor", c, a), "free", c, a)

\* std::make_unique<T>(v); the pointer it returns is operator_new(w).
make_unique(w, c, T, v, ok) ==
  LET a == operator_new(w) IN
    IF ok
      THEN Note(Note([w EXCEPT !.heap[a] = Obj(T, v)], "alloc", c, a), "ctor", c, a)
      ELSE Throw(Note(Note(w, "alloc", c, a), "free", c, a), "ctor")

\* **p for the unique_ptr in slot c
pointee(w, c) == IF w.storage[c].ptr \in Addrs THEN w.heap[w.storage[c].ptr] ELSE NoObj

\* ---------------------------------------------------------------- model_of
model_of(T, u) == [type |-> T, unit |-> u]

\* ---------------------------------------------------------------- internal_storage<T>
internal_type(T) == T

internal_free(w, T, c) ==
  IF w.storage[c].kind = "val"
    THEN Note([w EXCEPT !.storage[c] = Raw], "dtor", c, 0)
    ELSE Note(w, "ub", c, 0)

internal_copy_construct(w, T, src, dst) ==
  IF is_copyable(T)
    THEN Note([w EXCEPT !.storage[dst] = Val(T, w.storage[src].val)], "ctor", dst, 0)
    ELSE Throw(w, "bad_any_copy")

internal_move_construct(w, T, src, dst) ==
  Note([w EXCEPT !.storage[dst] = Val(T, w.storage[src].val),
                 !.storage[src] = Val(T, moved_from(T, w.storage[src].val))],
       "ctor", dst, 0)

internal_copy_assign(w, T, src, dst) ==
  IF is_copyable(T)
    THEN Note([w EXCEPT !.storage[dst].val = w.storage[src].val], "assign", dst, 0)
    ELSE Throw(w, "bad_any_copy")

\* mutant: source and destination exchanged (*s = std::move(*d))
internal_move_assign_swapped(w, T, src, dst) ==
  Note([w EXCEPT !.storage[src].val = w.storage[dst].val,
                 !.storage[dst].val = moved_from(T, w.storage[dst].val)],
       "assign", dst, 0)

internal_move_assign(w, T, src, dst) ==
  Note([w EXCEPT !.storage[dst].val = w.storage[src].val,
                 !.storage[src].val = moved_from(T, w.storage[src].val)],
       "assign", dst, 0)

\* ---------------------------------------------------------------- external_storage<T>
external_type(T) == T

\* mutant: the unique_ptr is released instead of destroyed
external_free_no_delete(w, T, c) ==
  IF w.storage[c].kind = "ptr"
    THEN [w EXCEPT !.storage[c] = Raw]
    ELSE Note(w, "ub", c, 0)

external_free(w, T, c) ==
  IF w.storage[c].kind = "ptr"
    THEN [delete(w, c, w.storage[c].ptr) EXCEPT !.storage[c] = Raw]
    ELSE Note(w, "ub", c, 0)

\* mutant: the pointer is copied, not the pointee
external_copy_construct_shallow(w, T, src, dst) ==
  IF is_copyable(T)
    THEN [w EXCEPT !.storage[dst] = Ptr(T, w.storage[src].ptr)]
    ELSE Throw(w, "bad_any_copy")

external_copy_construct(w, T, src, dst) ==
  IF is_copyable(T)
    THEN LET a == operator_new(w)
             w1 == make_unique(w, dst, T, pointee(w, src).val, TRUE)
         IN [w1 EXCEPT !.storage[dst] = Ptr(T, a)]
    ELSE Throw(w, "bad_any_copy")

external_move_construct(w, T, src, dst) ==
  [w EXCEPT !.storage[dst] = Ptr(T, w.storage[src].ptr),
            !.storage[src] = Ptr(T, 0)]

external_copy_assign(w, T, src, dst) ==
  IF is_copyable(T)
    THEN LET d == w.storage[dst].ptr IN
         Note([w EXCEPT !.heap[d].val = pointee(w, src).val], "assign", dst, d)
    ELSE Throw(w, "bad_any_copy")

\* mutant: the destination's old pointer is dropped without delete
external_move_assign_leak(w, T, src, dst) ==
  LET s == w.storage[src].ptr
      d == w.storage[dst].ptr
  IN IF is_movable(T)
       THEN Note([w EXCEPT !.heap[d].val = pointee(w, src).val,
                           !.heap[s].val = moved_from(T, pointee(w, src).val)],
                 "assign", dst, d)
       ELSE [w EXCEPT !.storage[dst] = Ptr(T, s),
                      !.storage[src] = Ptr(T, 0)]

external_move_assign(w, T, src, dst) ==
  LET s == w.storage[src].ptr
      d == w.storage[dst].ptr
  IN IF is_movable(T)
       THEN Note([w EXCEPT !.heap[d].val = pointee(w, src).val,
                           !.heap[s].val = moved_from(T, pointee(w, src).val)],
                 "assign", dst, d)
       ELSE delete([w EXCEPT !.storage[dst] = Ptr(T, s),
                             !.storage[src] = Ptr(T, 0)], dst, d)

\* ---------------------------------------------------------------- storage_model (virtual dispatch)
type_of(m) == IF can_store_internally(m.type) THEN internal_type(m.type) ELSE external_type(m.type)

free(w, m, c) ==
  IF can_store_internally(m.type) THEN internal_free(w, m.type, c)
                                  ELSE external_free(w, m.type, c)

copy_construct(w, m, src, dst) ==
  IF can_store_internally(m.type) THEN internal_copy_construct(w, m.type, src, dst)
                                  ELSE external_copy_construct(w, m.type, src, dst)

move_construct(w, m, src, dst) ==
  IF can_store_internally(m.type) THEN internal_move_construct(w, m.type, src, dst)
                                  ELSE external_move_construct(w, m.type, src, dst)

copy_assign(w, m, src, dst) ==
  IF can_store_internally(m.type) THEN internal_copy_assign(w, m.type, src, dst)
                                  ELSE external_copy_assign(w, m.type, src, dst)

move_assign(w, m, src, dst) ==
  IF can_store_internally(m.type) THEN internal_move_assign(w, m.type, src, dst)
                                  ELSE external_move_assign(w, m.type, src, dst)

\* ---------------------------------------------------------------- any
publish(w, c, m) == Note([w EXCEPT !.model[c] = m], "publish", c, 0)

\* mutant: model is not reset
clear_keeps_model(w, c) ==
  IF w.model[c] # Null
    THEN free(w, w.model[c], c)
    ELSE w

clear(w, c) ==
  IF w.model[c] # Null
    THEN [free(w, w.model[c], c) EXCEPT !.model[c] = Null]
    ELSE w

empty(w, c) == (w.model[c] = Null)

type(w, c) == IF w.model[c] # Null THEN type_of(w.model[c]) ELSE Void

\* any(any const& x), run on the fresh object c
any_copy(w, c, x) ==
  IF w.model[x] # Null
    THEN LET w1 == copy_construct(w, w.model[x], x, c) IN
         IF w1.exc # None THEN w1 ELSE publish(w1, c, w.model[x])
    ELSE w

\* any(any&& x), run on the fresh object c
any_move(w, c, x) ==
  IF w.model[x] # Null /\ c # x
    THEN clear(publish(move_construct(w, w.model[x], x, c), c, w.model[x]), x)
    ELSE w

\* mutant: no in-place branch, always clear and construct
assign_copy_reconstruct(w, c, x) ==
  IF w.model[x] # Null
    THEN LET w1 == clear(w, c)
             w2 == copy_construct(w1, w1.model[x], x, c)
         IN IF w2.exc # None THEN w2 ELSE publish(w2, c, w2.model[x])
    ELSE clear(w, c)

\* operator=(any const& x)
assign_copy(w, c, x) ==
  IF w.model[x] # Null
    THEN IF w.model[c] = w.model[x]
           THEN copy_assign(w, w.model[c], x, c)
           ELSE LET w1 == clear(w, c)
                    w2 == copy_construct(w1, w1.model[x], x, c)
                IN IF w2.exc # None THEN w2 ELSE publish(w2, c, w2.model[x])
    ELSE clear(w, c)

\* mutant: the source is not cleared
assign_move_keeps_source(w, c, x) ==
  IF c # x
    THEN IF w.model[x] # Null
           THEN IF w.model[c] = w.model[x]
                  THEN move_assign(w, w.model[c], x, c)
                  ELSE LET w2 == clear(w, c) IN
                       publish(move_construct(w2, w2.model[x], x, c), c, w2.model[x])
           ELSE clear(w, c)
    ELSE w

\* operator=(any&& x)
assign_move(w, c, x) ==
  IF c # x
    THEN IF w.model[x] # Null
           THEN LET w1 == IF w.model[c] = w.model[x]
                            THEN move_assign(w, w.model[c], x, c)
                            ELSE LET w2 == clear(w, c) IN
                                 publish(move_construct(w2, w2.model[x], x, c), c, w2.model[x])
                IN clear(w1, x)
           ELSE clear(w, c)
    ELSE w

\* mutant: model is assigned before the storage is created
emplace_publish_first(w, c, T, v, u, ok) ==
  LET w1 == publish(clear(w, c), c, model_of(T, u)) IN
    IF can_store_internally(T)
      THEN IF ok THEN Note([w1 EXCEPT !.storage[c] = Val(T, v)], "ctor", c, 0)
                 ELSE Throw(w1, "ctor")
      ELSE LET p == make_unique(w1, c, T, v, ok) IN
           IF p.exc # None THEN p
           ELSE [p EXCEPT !.storage[c] = Ptr(T, operator_new(w1))]

\* emplace<T>(args...): ok = FALSE when T's constructor throws
emplace(w, c, T, v, u, ok) ==
  LET w1 == clear(w, c)
      w2 == IF can_store_internally(T)
              THEN IF ok THEN Note([w1 EXCEPT !.storage[c] = Val(T, v)], "ctor", c, 0)
                         ELSE Throw(w1, "ctor")
              ELSE LET p == make_unique(w1, c, T, v, ok) IN
                   IF p.exc # None THEN p
                   ELSE [p EXCEPT !.storage[c] = Ptr(T, operator_new(w1))]
  IN IF w2.exc # None THEN w2 ELSE publish(w2, c, model_of(T, u))

construct(w, c, T, v, u) == emplace(w, c, T, v, u, TRUE)

\* any(T&& x)
any_value(w, c, T, v, u) == construct(w, c, T, v, u)

\* operator=(T&& x): *this = any{std::move(x)}, then the temporary dies
assign_value(w, c, T, v, u) ==
  clear(assign_move(any_value(w, Temp, T, v, u), c, Temp), Temp)

\* pointers handed out by try_cast
nullptr == [slot |-> 0 - 1, addr |-> 0]
InSlot(c) == [slot |-> c, addr |-> 0]
OnHeap(a) == [slot |-> 0 - 1, addr |-> a]
deref(w, p) == IF p.addr # 0 THEN w.heap[p.addr].val ELSE w.storage[p.slot].val

\* mutant: descriptors compared by address only
try_cast_by_identity(w, c, U, u) ==
  IF w.model[c] = Null THEN nullptr
  ELSE IF w.model[c] # model_of(U, u) THEN nullptr
  ELSE IF can_store_internally(U) THEN InSlot(c)
  ELSE OnHeap(w.storage[c].ptr)

try_cast(w, c, U, u) ==
  IF w.model[c] = Null THEN nullptr
  ELSE IF w.model[c] # model_of(U, u) /\ type_of(w.model[c]) # U THEN nullptr
  ELSE IF can_store_internally(U) THEN InSlot(c)
  ELSE OnHeap(w.storage[c].ptr)

\* cast<T>() & and cast<T>() const&
cast(w, c, U, u) ==
  IF try_cast(w, c, U, u) # nullptr THEN w ELSE Throw(w, "bad_any_cast")

\* cast<T>() &&: return std::move(*x)
cast_rvalue(w, c, U, u) ==
  LET x == try_cast(w, c, U, u) IN
    IF x # nullptr
      THEN IF x.addr # 0
             THEN [w EXCEPT !.heap[x.addr].val = moved_from(U, @)]
             ELSE [w EXCEPT !.storage[x.slot].val = moved_from(U, @)]
      ELSE Throw(w, "bad_any_cast")

\* ---------------------------------------------------------------- the client program
Start == [model |-> model, storage |-> storage, heap |-> heap, log |-> <<>>, exc |-> None]

\* what a client can observe of container c
View(w, c) ==
  [held |-> ~empty(w, c),
   type |-> type(w, c),
   unit |-> w.model[c].unit,
   val  |-> IF w.storage[c].kind = "val" THEN w.storage[c].val
            ELSE IF w.storage[c].kind = "ptr" THEN pointee(w, c).val ELSE 0,
   addr |-> w.storage[c].ptr]

NoArg == [T |-> Void, v |-> 0, u |-> 0]
Arg(T, v, u) == [T |-> T, v |-> v, u |-> u]

Op(name, c, x, arg, w, p, r) ==
  [op |-> name, dst |-> c, src |-> x, arg |-> arg, exc |-> w.exc, ptr |-> p, val |-> r,
   preDst |-> View(Start, c), preSrc |-> View(Start, x)]

Commit(w) ==
  /\ model' = w.model
  /\ storage' = w.storage
  /\ heap' = w.heap
  /\ log' = w.log

Init ==
  /\ alive = [c \in Slots |-> FALSE]
  /\ model = [c \in Slots |-> Null]
  /\ storage = [c \in Slots |-> Raw]
  /\ heap = [a \in Addrs |-> NoObj]
  /\ log = <<>>
  /\ last = Op("init", Temp, Temp, NoArg, Start, nullptr, 0)

DefaultConstruct(c) ==
  /\ ~alive[c]
  /\ alive' = [alive EXCEPT ![c] = TRUE]
  /\ Commit(Start)
  /\ last' = Op("any", c, c, NoArg, Start, nullptr, 0)

CopyConstruct(c, x) ==
  /\ ~alive[c] /\ alive[x]
  /\ LET w == any_copy(Start, c, x) IN
       /\ Commit(w)
       /\ alive' = [alive EXCEPT ![c] = (w.exc = None)]
       /\ last' = Op("any_copy", c, x, NoArg, w, nullptr, 0)

MoveConstruct(c, x) ==
  /\ ~alive[c] /\ alive[x]
  /\ LET w == any_move(Start, c, x) IN
       /\ Commit(w)
       /\ alive' = [alive EXCEPT ![c] = TRUE]
       /\ last' = Op("any_move", c, x, NoArg, w, nullptr, 0)

ValueConstruct(c, T, v, u) ==
  /\ ~alive[c] /\ is_move_constructible(T)
  /\ LET w == any_value(Start, c, T, v, u) IN
       /\ Commit(w)
       /\ alive' = [alive EXCEPT ![c] = TRUE]
       /\ last' = Op("any_value", c, c, Arg(T, v, u), w, nullptr, 0)

CopyAssign(c, x) ==
  /\ alive[c] /\ alive[x]
  /\ LET w == assign_copy(Start, c, x) IN
       /\ Commit(w)
       /\ UNCHANGED alive
       /\ last' = Op("assign_copy", c, x, NoArg, w, nullptr, 0)

MoveAssign(c, x) ==
  /\ alive[c] /\ alive[x]
  /\ LET w == assign_move(Start, c, x) IN
       /\ Commit(w)
       /\ UNCHANGED alive
       /\ last' = Op("assign_move", c, x, NoArg, w, nullptr, 0)

ValueAssign(c, T, v, u) ==
  /\ alive[c] /\ is_move_constructible(T)
  /\ LET w == assign_value(Start, c, T, v, u) IN
       /\ Commit(w)
       /\ UNCHANGED alive
       /\ last' = Op("assign_value", c, c, Arg(T, v, u), w, nullptr, 0)

Clear(c) ==
  /\ alive[c]
  /\ LET w == clear(Start, c) IN
       /\ Commit(w)
       /\ UNCHANGED alive
       /\ last' = Op("clear", c, c, NoArg, w, nullptr, 0)

\* ~any()
Destroy(c) ==
  /\ alive[c]
  /\ LET w == clear(Start, c) IN
       /\ Commit(w)
       /\ alive' = [alive EXCEPT ![c] = FALSE]
       /\ last' = Op("destroy", c, c, NoArg, w, nullptr, 0)

Emplace(c, T, v, u, ok) ==
  /\ alive[c]
  /\ LET w == emplace(Start, c, T, v, u, ok) IN
       /\ Commit(w)
       /\ UNCHANGED alive
       /\ last' = Op("emplace", c, c, Arg(T, v, u), w, nullptr, 0)

Empty(c) ==
  /\ alive[c]
  /\ Commit(Start)
  /\ UNCHANGED alive
  /\ last' = Op("empty", c, c, NoArg, Start, nullptr, IF empty(Start, c) THEN 1 ELSE 0)

Type(c) ==
  /\ alive[c]
  /\ Commit(Start)
  /\ UNCHANGED alive
  /\ last' = Op("type", c, c, Arg(type(Start, c), 0, 0), Start, nullptr, 0)

TryCast(c, U, u) ==
  /\ alive[c]
  /\ Commit(Start)
  /\ UNCHANGED alive
  /\ LET x == try_cast(Start, c, U, u) IN
       last' = Op("try_cast", c, c, Arg(U, 0, u), Start, x,
                  IF x # nullptr THEN deref(Start, x) ELSE 0)

Cast(c, U, u) ==
  /\ alive[c]
  /\ LET w == cast(Start, c, U, u)
         x == try_cast(Start, c, U, u)
     IN /\ Commit(w)
        /\ UNCHANGED alive
        /\ last' = Op("cast", c, c, Arg(U, 0, u), w, x,
                      IF x # nullptr THEN deref(Start, x) ELSE 0)

CastRvalue(c, U, u) ==
  /\ alive[c] /\ is_move_constructible(U)
  /\ LET w == cast_rvalue(Start, c, U, u)
         x == try_cast(Start, c, U, u)
     IN /\ Commit(w)
        /\ UNCHANGED alive
        /\ last' = Op("cast_rvalue", c, c, Arg(U, 0, u), w, x,
                      IF x # nullptr THEN deref(Start, x) ELSE 0)

\* The operations that write a container, over the containers C, called from the
\* translation units U.
Mutate(C, U) ==
  \/ \E c \in C : DefaultConstruct(c)
  \/ \E c \in C, T \in Types, v \in Vals, u \in U : ValueConstruct(c, T, v, u)
  \/ \E c, x \in C : CopyAssign(c, x)
  \/ \E c, x \in C : MoveAssign(c, x)
  \/ \E c \in C, T \in Types, v \in Vals, u \in U : ValueAssign(c, T, v, u)
  \/ \E c \in C : Clear(c)
  \/ \E c \in C : Destroy(c)
  \/ \E c \in C, T \in Types, v \in Vals, u \in U, ok \in BOOLEAN : Emplace(c, T, v, u, ok)
  \/ \E c \in C, T \in Types, u \in U : CastRvalue(c, T, u)

\* Construction from another container needs two of them.
Transfer(C) ==
  \/ \E c, x \in C : CopyConstruct(c, x)
  \/ \E c, x \in C : MoveConstruct(c, x)

Query(C, U) ==
  \/ \E c \in C : Empty(c)
  \/ \E c \in C : Type(c)
  \/ \E c \in C, T \in Types, u \in U : TryCast(c, T, u)
  \/ \E c \in C, T \in Types, u \in U : Cast(c, T, u)

\* A program whose model_of<T> statics are merged: one descriptor per type.
Next == Mutate(Ids, {1}) \/ Transfer(Ids)

Spec == Init /\ [][Next]_vars

\* A program in which every translation unit has its own model_of<T> static
\* (any.hpp:221), working on one container.
NextUnits == Mutate({1}, Units) \/ Query({1}, Units)

SpecUnits == Init /\ [][NextUnits]_vars

\* ---------------------------------------------------------------- properties
Now(c) == View(Start, c)
Internal(T) == can_store_internally(T)
Evs(e) == {i \in 1..Len(log) : log[i].ev = e}
EvsAt(e, c) == {i \in 1..Len(log) : log[i].ev = e /\ log[i].slot = c}
Live == {a \in Addrs : heap[a] # NoObj}
External == {c \in Slots : model[c] # Null /\ ~Internal(model[c].type)}
EmplaceOps == {"emplace", "any_value", "assign_value"}
CopyOps == {"any_copy", "assign_copy"}
MoveOps == {"any_move", "assign_move"}
AssignOps == {"assign_copy", "assign_move"}
SameDescriptor == last.preDst.held /\ last.preSrc.held
                  /\ last.preDst.type = last.preSrc.type /\ last.preDst.unit = last.preSrc.unit

\* C1: after every operation, failed ones included, model[c] is non-null exactly
\* when storage[c] holds one live value: the value itself for an inline type, a
\* non-null unique_ptr to a live heap object for an external type; and that
\* value's type is the descriptor's type. Nothing is destroyed twice.
C1_ModelIffLiveValue ==
  /\ \A c \in Slots :
       /\ (model[c] # Null) <=> (storage[c] # Raw)
       /\ ~alive[c] => model[c] = Null
       /\ model[c] # Null =>
            /\ storage[c].type = type_of(model[c])
            /\ IF Internal(model[c].type)
                 THEN storage[c].kind = "val"
                 ELSE /\ storage[c].kind = "ptr"
                      /\ storage[c].ptr \in Live
                      /\ heap[storage[c].ptr].type = type_of(model[c])
  /\ Evs("ub") = {}

C1_Witness ==
  /\ last.op = "assign_copy" /\ last.exc = "bad_any_copy"
  /\ last.preDst.held /\ last.dst # last.src
  /\ model[last.dst] = Null /\ model[last.src] # Null

\* C2: after emplace<T>(v), any(v) or x = v returned normally, the container is
\* non-empty, type() is T's token and cast<T>() (from any translation unit)
\* yields v, whatever the container held before.
C2_EmplaceThenCast ==
  (last.op \in EmplaceOps /\ last.exc = None) =>
    LET c == last.dst
        T == last.arg.T
    IN /\ ~empty(Start, c)
       /\ type(Start, c) = T
       /\ \A u \in Units :
            /\ cast(Start, c, T, u).exc = None
            /\ deref(Start, try_cast(Start, c, T, u)) = last.arg.v

C2_Witness ==
  /\ last.op = "assign_value" /\ last.exc = None
  /\ last.preDst.held /\ last.preDst.type = last.arg.T /\ last.preDst.val # last.arg.v
  /\ ~Internal(last.arg.T)
  /\ Now(last.dst).val = last.arg.v

C4_Original ==
  (last.op \in CopyOps /\ last.preSrc.held /\ ~is_copyable(last.preSrc.type)) =>
    /\ last.exc = "bad_any_copy"
    /\ Now(last.src) = last.preSrc
    /\ last.op = "assign_copy" => Now(last.dst) = last.preDst

\* What try_cast<U>() returned and whether cast<U>() threw, against what the
\* container held before the call.
CastOps == {"cast", "cast_rvalue"}
C5_PointerAndThrow ==
  /\ (last.ptr # nullptr) <=> (last.preDst.held /\ last.preDst.type = last.arg.T)
  /\ last.ptr # nullptr =>
       /\ last.ptr = IF Internal(last.arg.T) THEN InSlot(last.dst) ELSE OnHeap(last.preDst.addr)
       /\ last.val = last.preDst.val
  /\ last.op \in CastOps => ((last.exc = "bad_any_cast") <=> (last.ptr = nullptr))
  /\ last.op = "try_cast" => last.exc = None

\* C5 as claimed: try_cast<U>() is non-null exactly when a value with U's token
\* is held, also across descriptor instances; cast<U>() throws exactly when
\* try_cast<U>() is null; neither changes the container.
C5_Original ==
  (last.op \in {"try_cast"} \cup CastOps) =>
    /\ C5_PointerAndThrow
    /\ Now(last.dst) = last.preDst

\* C5 amended: as claimed for try_cast and for cast on an lvalue; cast on an
\* rvalue container moves the held value out, which leaves the container holding
\* a U in U's moved-from state (and changes nothing when it throws).
C5_TryCastAndCast ==
  (last.op \in {"try_cast"} \cup CastOps) =>
    /\ C5_PointerAndThrow
    /\ log = <<>>
    /\ IF last.op = "cast_rvalue" /\ last.exc = None
         THEN Now(last.dst) = [last.preDst EXCEPT !.val = moved_from(last.arg.T, @)]
         ELSE Now(last.dst) = last.preDst

C5_Witness ==
  /\ last.op = "try_cast" /\ last.ptr # nullptr
  /\ last.preDst.unit # last.arg.u
  /\ last.preDst.type = last.arg.T

\* C6: live heap allocations and containers holding an externally stored value
\* correspond one to one; an allocation is released only together with the
\* destruction of its value (or with the failed construction of it), never
\* twice; operations on inline types allocate nothing.
C6_OneAllocationPerExternalValue ==
  /\ \A c \in External : storage[c].ptr \in Live
  /\ \A c, d \in External : c # d => storage[c].ptr # storage[d].ptr
  /\ Cardinality(Live) = Cardinality(External)
  /\ Evs("ub") = {}
  /\ \A i \in Evs("free") :
       i > 1 /\ log[i - 1].addr = log[i].addr /\ log[i - 1].ev \in {"dtor", "alloc"}
  /\ \A i \in Evs("dtor") :
       log[i].addr # 0 => (i < Len(log) /\ log[i + 1] = Event("free", log[i].slot, log[i].addr))
  /\ ((last.op \in EmplaceOps /\ Internal(last.arg.T))
       \/ (last.op \in CopyOps \cup MoveOps /\ last.preSrc.held /\ Internal(last.preSrc.type)))
     => Evs("alloc") = {}

C6_Witness ==
  /\ last.op = "assign_value" /\ ~Internal(last.arg.T)
  /\ last.preDst.held /\ ~Internal(last.preDst.type)
  /\ Cardinality(External) = 2 /\ Cardinality(Live) = 2
  /\ Evs("free") # {}

\* C7: when T's constructor throws in emplace<T>, the container ends empty: the
\* value held before was destroyed exactly once, no descriptor was published and
\* the allocation made for the new value was given back. In every emplace the
\* descriptor is published only after the construction of the new value, with
\* no destruction in between.
C7_EmplaceFailureLeavesEmpty ==
  /\ (last.op = "emplace" /\ last.exc = "ctor") =>
       /\ model[last.dst] = Null /\ storage[last.dst] = Raw
       /\ Cardinality(EvsAt("dtor", last.dst)) = (IF last.preDst.held THEN 1 ELSE 0)
       /\ Evs("publish") = {} /\ Evs("ctor") = {}
       /\ last.preDst.addr # 0 => heap[last.preDst.addr] = NoObj
       /\ \A i \in Evs("alloc") :
            i < Len(log) /\ log[i + 1] = Event("free", log[i].slot, log[i].addr)
       /\ Cardinality(Live) = Cardinality(External)
  /\ last.op \in EmplaceOps =>
       \A i \in EvsAt("publish", IF last.op = "assign_value" THEN Temp ELSE last.dst) :
         \E j \in 1..(i - 1) :
           /\ log[j].ev = "ctor" /\ log[j].slot = log[i].slot
           /\ \A k \in j..i : ~(log[k].ev = "dtor" /\ log[k].slot = log[i].slot)

C7_Witness ==
  /\ last.op = "emplace" /\ last.exc = "ctor"
  /\ last.preDst.held /\ ~Internal(last.preDst.type) /\ ~Internal(last.arg.T)
  /\ model[last.dst] = Null

\* The destination's value object survived the last operation where it was.
C8_InPlace ==
  /\ EvsAt("dtor", last.dst) = {} /\ EvsAt("alloc", last.dst) = {} /\ EvsAt("free", last.dst) = {}
  /\ ~empty(Start, last.dst)
  /\ Now(last.dst).addr = last.preDst.addr

\* C8 as claimed: an assignment between two distinct containers holding the
\* same descriptor assigns in place: the destination's value object is not
\* destroyed, stays where it is, nothing is allocated or released for it.
C8_Original ==
  (last.op \in AssignOps /\ last.src # last.dst /\ SameDescriptor) => C8_InPlace

\* C8 amended: as claimed, except that (a) move assignment of an externally
\* stored type that is not movable moves the unique_ptr: the destination's old
\* value is destroyed and released and the destination takes over the source's
\* allocation; (b) copy assignment of a type that is not copyable throws
\* bad_any_copy and leaves the destination untouched.
C8_SameDescriptorAssign ==
  (last.op \in AssignOps /\ last.src # last.dst /\ SameDescriptor) =>
    LET T == last.preDst.type IN
      IF last.op = "assign_move" /\ ~Internal(T) /\ ~is_movable(T)
        THEN /\ Now(last.dst).addr = last.preSrc.addr
             /\ Now(last.dst).val = last.preSrc.val
             /\ heap[last.preDst.addr] = NoObj
             /\ EvsAt("free", last.dst) # {}
      ELSE IF last.op = "assign_copy" /\ ~is_copyable(T)
        THEN last.exc = "bad_any_copy" /\ Now(last.dst) = last.preDst /\ log = <<>>
      ELSE /\ C8_InPlace
           /\ EvsAt("assign", last.dst) # {}
           /\ last.exc = None
           /\ Now(last.dst).val = last.preSrc.val

C8_Witness ==
  /\ last.op = "assign_move" /\ last.src # last.dst /\ SameDescriptor
  /\ last.preDst.type = "big" /\ last.preDst.val # last.preSrc.val
  /\ Now(last.dst).addr = last.preDst.addr /\ Now(last.dst).val = last.preSrc.val

\* C9: an operation changes no container but the one it is invoked on, except
\* that a move empties its source; a copy leaves its source as it was and gives
\* the destination a value of its own (its own allocation for an external type).
C9_Frame ==
  [][ /\ \A c \in Ids :
           (c # last'.dst /\ ~(c = last'.src /\ last'.op \in MoveOps))
             => (Now(c)' = Now(c) /\ alive'[c] = alive[c])
      /\ \A c, x \in Ids :
           (last'.op \in CopyOps /\ last'.dst = c /\ last'.src = x /\ x # c) =>
             /\ Now(x)' = Now(x)
             /\ (last'.exc = None /\ Now(x).held) =>
                  /\ Now(c)'.type = Now(x).type
                  /\ Now(c)'.val = Now(x).val
                  /\ ~Internal(Now(x).type) => Now(c)'.addr # Now(x)'.addr
    ]_vars

C9_Witness ==
  /\ last.op = "assign_copy" /\ last.exc = None /\ last.src # last.dst
  /\ last.preSrc.held /\ ~Internal(last.preSrc.type)
  /\ Now(last.src) = last.preSrc
  /\ Now(last.dst).val = last.preSrc.val
  /\ Now(last.dst).addr # Now(last.src).addr

\* C10: after clear() (and after the destructor, which is clear()) the container
\* is empty and type() is the void token; a held value was destroyed exactly
\* once, through its descriptor; clear() on an empty container does nothing.
C10_ClearEmpties ==
  (last.op \in {"clear", "destroy"}) =>
    /\ empty(Start, last.dst)
    /\ type(Start, last.dst) = Void
    /\ storage[last.dst] = Raw
    /\ clear(Start, last.dst) = Start
    /\ IF last.preDst.held
         THEN /\ Cardinality(Evs("dtor")) = 1
              /\ log[1] = Event("dtor", last.dst, last.preDst.addr)
              /\ last.preDst.addr # 0 => heap[last.preDst.addr] = NoObj
         ELSE log = <<>> /\ Now(last.dst) = last.preDst

C10_Witness ==
  /\ last.op = "clear" /\ last.preDst.held /\ ~Internal(last.preDst.type)
  /\ empty(Start, last.dst) /\ Len(log) = 2

====
